---- MODULE Spec2Model ----
(***************************************************************************)
(* Model of process-leads.py: the extractor (extract_json_from_raw), the   *)
(* transformer (extract_row and the body of process_niche) and the run     *)
(* over all niches (main).                                                 *)
(*                                                                         *)
(* Raw content is a sequence of lexical tokens.  Structural characters are *)
(* single tokens; an object member whose value is a scalar is one token    *)
(* that stands for its whole text, e.g. "t" is the text "title":"A".       *)
(***************************************************************************)
EXTENDS Integers, Sequences, FiniteSets, TLC

VARIABLES
    content,    \* extract_json_from_raw: the raw text being examined
    xpc,        \* extract_json_from_raw: control position
    result,     \* extract_json_from_raw: what the call produced
    data,       \* process_niche: the extracted array
    i,          \* process_niche: index of the next record of the for loop
    seen,       \* process_niche: the set seen
    rows,       \* process_niche: the list rows
    tpc,        \* process_niche: control position of the transformation
    full,       \* <niche>-leads.csv of the niche being transformed
    preview,    \* <niche>-preview.csv of the niche being transformed
    raw,        \* main: raw file of every niche
    fullOf,     \* main: <niche>-leads.csv of every niche
    previewOf,  \* main: <niche>-preview.csv of every niche
    stats,      \* main: the dict stats
    statsFile,  \* main: stats.json
    k,          \* main: position in NICHES
    mpc,        \* main: control position
    changes     \* number of changes made to the raw files so far

vars == <<content, xpc, result, data, i, seen, rows, tpc, full, preview,
          raw, fullOf, previewOf, stats, statsFile, k, mpc, changes>>

xvars == <<content, xpc, result>>
tvars == <<data, i, seen, rows, tpc, full, preview>>
mvars == <<raw, fullOf, previewOf, stats, statsFile, k, mpc, changes>>

-----------------------------------------------------------------------------
(* Bounds *)

MaxContentLen == 6
MaxRecords == 3
MaxLong == 20
MaxChanges == 1

-----------------------------------------------------------------------------
(* Program constants *)

PREVIEW_ROWS == 10

NICHES == <<"dentists", "plumbers", "realtors", "restaurants", "gyms">>

CSV_HEADERS ==
    <<"Business Name", "Category", "Address", "City", "State", "Postal Code",
      "Phone", "Website", "Rating", "Review Count", "Latitude", "Longitude">>

-----------------------------------------------------------------------------
(* JSON values as Python objects *)

PyStr(s) == [tag |-> "str", s |-> s]
PyInt(n) == [tag |-> "int", n |-> n]
PyNone == [tag |-> "null"]
PyTrue == [tag |-> "bool", b |-> TRUE]
PyList(items) == [tag |-> "list", items |-> items]
PyDict(d) == [tag |-> "dict", d |-> d]
EmptyDict == PyDict([key \in {} |-> PyNone])

\* Python truthiness
Truthy(v) ==
    CASE v.tag = "str" -> v.s # ""
      [] v.tag = "int" -> v.n # 0
      [] v.tag = "null" -> FALSE
      [] v.tag = "bool" -> v.b
      [] v.tag = "list" -> v.items # <<>>
      [] v.tag = "dict" -> DOMAIN v.d # {}

\* what a call produced: a value, or an exception
Ok(v) == [kind |-> "ok", val |-> v]
Raise(e) == [kind |-> "raise", exc |-> e]
Pending == [kind |-> "pending"]

-----------------------------------------------------------------------------
(* Tokens *)

\* text of the scalar members
AtomKey ==
    [tok \in {"t", "b", "pa", "pb", "pe", "c", "r0", "r5", "r9", "rs", "re",
              "rx", "ln", "lx", "a", "g"} |->
        CASE tok = "t" -> "title"
          [] tok = "b" -> "note"
          [] tok \in {"pa", "pb", "pe"} -> "placeId"
          [] tok = "c" -> "permanentlyClosed"
          [] tok \in {"r0", "r5", "r9", "rs", "re", "rx"} -> "reviewsCount"
          [] tok \in {"ln", "lx"} -> "location"
          [] tok = "a" -> "lat"
          [] tok = "g" -> "lng"]

AtomVal ==
    [tok \in DOMAIN AtomKey |->
        CASE tok = "t" -> PyStr("A")
          [] tok = "b" -> PyStr("]")
          [] tok = "pa" -> PyStr("a")
          [] tok = "pb" -> PyStr("b")
          [] tok = "pe" -> PyStr("")
          [] tok = "c" -> PyTrue
          [] tok = "r0" -> PyInt(0)
          [] tok = "r5" -> PyInt(5)
          [] tok = "r9" -> PyInt(9)
          [] tok = "rs" -> PyStr("12")
          [] tok = "re" -> PyStr("")
          [] tok = "rx" -> PyStr("abc")
          [] tok = "ln" -> PyNone
          [] tok = "lx" -> PyStr("x")
          [] tok = "a" -> PyInt(1)
          [] tok = "g" -> PyInt(2)]

\* the token "L" is the text "location": and is followed by its value
KeyOfPrefix == [tok \in {"L"} |-> "location"]

\* the characters str.lstrip, str.strip, json.loads and \s take as whitespace
Whitespace == {" "}

-----------------------------------------------------------------------------
(* json.loads *)

Fail == [ok |-> FALSE]
Parsed(v, n) == [ok |-> TRUE, val |-> v, next |-> n]

At(s, j) == IF j \in 1..Len(s) THEN s[j] ELSE "EOF"

RECURSIVE SkipWs(_, _)
SkipWs(s, j) == IF At(s, j) \in Whitespace THEN SkipWs(s, j + 1) ELSE j

Put(d, key, v) == [kk \in DOMAIN d \cup {key} |-> IF kk = key THEN v ELSE d[kk]]

RECURSIVE ParseValue(_, _)
RECURSIVE ParseElems(_, _, _)
RECURSIVE ParseMembers(_, _, _)

\* a value starting at position j (no leading whitespace)
ParseValue(s, j) ==
    CASE At(s, j) = "[" ->
            LET j2 == SkipWs(s, j + 1)
            IN  IF At(s, j2) = "]" THEN Parsed(PyList(<<>>), j2 + 1)
                ELSE ParseElems(s, j2, <<>>)
      [] At(s, j) = "{" ->
            LET j2 == SkipWs(s, j + 1)
            IN  IF At(s, j2) = "}" THEN Parsed(EmptyDict, j2 + 1)
                ELSE ParseMembers(s, j2, EmptyDict.d)
      [] OTHER -> Fail

ParseElems(s, j, acc) ==
    LET v == ParseValue(s, j)
    IN  IF ~v.ok THEN Fail
        ELSE LET j2 == SkipWs(s, v.next)
             IN  CASE At(s, j2) = "," ->
                        ParseElems(s, SkipWs(s, j2 + 1), Append(acc, v.val))
                   [] At(s, j2) = "]" ->
                        Parsed(PyList(Append(acc, v.val)), j2 + 1)
                   [] OTHER -> Fail

ParseMembers(s, j, d) ==
    LET m == CASE At(s, j) \in DOMAIN AtomKey ->
                    [ok |-> TRUE, key |-> AtomKey[s[j]], val |-> AtomVal[s[j]],
                     next |-> j + 1]
               [] At(s, j) \in DOMAIN KeyOfPrefix ->
                    LET v == ParseValue(s, SkipWs(s, j + 1))
                    IN  IF v.ok
                        THEN [ok |-> TRUE, key |-> KeyOfPrefix[s[j]],
                              val |-> v.val, next |-> v.next]
                        ELSE Fail
               [] OTHER -> Fail
    IN  IF ~m.ok THEN Fail
        ELSE LET j2 == SkipWs(s, m.next)
                 d2 == Put(d, m.key, m.val)
             IN  CASE At(s, j2) = "," -> ParseMembers(s, SkipWs(s, j2 + 1), d2)
                   [] At(s, j2) = "}" -> Parsed(PyDict(d2), j2 + 1)
                   [] OTHER -> Fail

\* json.loads(s): the value, or JSONDecodeError
json_loads(s) ==
    LET v == ParseValue(s, SkipWs(s, 1))
    IN  IF v.ok /\ SkipWs(s, v.next) = Len(s) + 1
        THEN Ok(v.val)
        ELSE Raise("JSONDecodeError")

-----------------------------------------------------------------------------
(* extract_json_from_raw *)

\* content.lstrip().startswith("[{")
StartsWithArrayOfObjects(s) ==
    LET j == SkipWs(s, 1) IN At(s, j) = "[" /\ At(s, j + 1) = "{"

\* content.find('[{"title"'): the first position of the marker, 0 if none
marker == <<"[", "{", "t">>

FindMarker(s) ==
    LET hits == {j \in 1..Len(s) : /\ At(s, j) = marker[1]
                                   /\ At(s, j + 1) = marker[2]
                                   /\ At(s, j + 2) = marker[3]}
    IN  IF hits = {} THEN 0 ELSE CHOOSE j \in hits : \A h \in hits : j <= h

\* the characters '[' and ']' a token holds, as the scan counts them
Opens(tok) == tok = "["
Closes(tok) == tok \in {"]", "b"}

\* the while loop of strategy 2: the position at which depth returns to
\* zero, 0 if the text ends first
RECURSIVE ScanDepth(_, _, _)
ScanDepth(s, j, depth) ==
    IF j > Len(s) THEN 0
    ELSE IF Opens(s[j]) THEN ScanDepth(s, j + 1, depth + 1)
    ELSE IF Closes(s[j])
         THEN IF depth - 1 = 0 THEN j ELSE ScanDepth(s, j + 1, depth - 1)
    ELSE ScanDepth(s, j + 1, depth)

\* content[start:i+1]; a span that ends at the bracket inside the string of
\* "b" ends in the middle of that token: "b-" is the text of "b" cut there,
\* which is no JSON
Slice(s, start, e) ==
    IF s[e] = "b" THEN Append(SubSeq(s, start, e - 1), "b-")
    ELSE SubSeq(s, start, e)

\* re.search(r'\[\s*\{.*?\}\s*\]', content, re.DOTALL): the matched text,
\* <<>> if there is no match
RegexMatch(s) ==
    LET opens == {j \in 1..Len(s) : s[j] = "[" /\ At(s, SkipWs(s, j + 1)) = "{"}
    IN  IF opens = {} THEN <<>>
        ELSE LET p == CHOOSE j \in opens : \A h \in opens : j <= h
                 brace == SkipWs(s, p + 1)
                 ends == {q \in (brace + 1)..Len(s) :
                             s[q] = "}" /\ At(s, SkipWs(s, q + 1)) = "]"}
             IN  IF ends = {} THEN <<>>
                 ELSE LET q == CHOOSE j \in ends : \A h \in ends : j <= h
                      IN  SubSeq(s, p, SkipWs(s, q + 1))

\* Strategy 1 (lines 59-61)
Strategy1 ==
    /\ xpc = "s1"
    /\ IF StartsWithArrayOfObjects(content)
       THEN result' = json_loads(content) /\ xpc' = "done"
       ELSE result' = result /\ xpc' = "s2"
    /\ UNCHANGED <<content, tvars, mvars>>

\* Strategy 2 (lines 63-81)
Strategy2 ==
    /\ xpc = "s2"
    /\ LET start == FindMarker(content)
           e == IF start > 0 THEN ScanDepth(content, start, 0) ELSE 0
       IN  IF e > 0
           THEN result' = json_loads(Slice(content, start, e)) /\ xpc' = "done"
           ELSE result' = result /\ xpc' = "s3"
    /\ UNCHANGED <<content, tvars, mvars>>

\* Strategy 3 (lines 83-89)
Strategy3 ==
    /\ xpc = "s3"
    /\ LET m == RegexMatch(content)
           r == json_loads(m)
       IN  IF m # <<>> /\ r.kind = "ok"
           THEN result' = r /\ xpc' = "done"
           ELSE result' = result /\ xpc' = "s4"
    /\ UNCHANGED <<content, tvars, mvars>>

\* return None (line 91)
ReturnNone ==
    /\ xpc = "s4"
    /\ result' = Ok(PyNone)
    /\ xpc' = "done"
    /\ UNCHANGED <<content, tvars, mvars>>

\* the whole call, as process_niche uses it
extract_json_from_raw(s) ==
    IF StartsWithArrayOfObjects(s) THEN json_loads(s)
    ELSE LET start == FindMarker(s)
             e == IF start > 0 THEN ScanDepth(s, start, 0) ELSE 0
         IN  IF e > 0 THEN json_loads(Slice(s, start, e))
             ELSE LET m == RegexMatch(s)
                      r == json_loads(m)
                  IN  IF m # <<>> /\ r.kind = "ok" THEN r ELSE Ok(PyNone)

-----------------------------------------------------------------------------
(* extract_row and the transformation of process_niche *)

Empty == PyStr("")

\* place.get(key, default) on a dict
Get(place, key, default) ==
    IF key \in DOMAIN place.d THEN place.d[key] ELSE default

\* extract_row(place), lines 35-50: the row, or AttributeError when the
\* location is a true value without a get method.  src is not part of the
\* row: it records the position of the record in data.
extract_row(place, src) ==
    LET locv == Get(place, "location", EmptyDict)
        loc == IF Truthy(locv) THEN locv ELSE EmptyDict
    IN  IF loc.tag # "dict" THEN Raise("AttributeError")
        ELSE Ok([src |-> src,
                 cells |->
                   [h \in {CSV_HEADERS[c] : c \in 1..Len(CSV_HEADERS)} |->
                     CASE h = "Business Name" -> Get(place, "title", Empty)
                       [] h = "Category" -> Get(place, "categoryName", Empty)
                       [] h = "Address" -> Get(place, "address", Empty)
                       [] h = "City" -> Get(place, "city", Empty)
                       [] h = "State" -> Get(place, "state", Empty)
                       [] h = "Postal Code" -> Get(place, "postalCode", Empty)
                       [] h = "Phone" -> Get(place, "phone", Empty)
                       [] h = "Website" -> Get(place, "website", Empty)
                       [] h = "Rating" -> Get(place, "totalScore", Empty)
                       [] h = "Review Count" -> Get(place, "reviewsCount", Empty)
                       [] h = "Latitude" -> Get(loc, "lat", Empty)
                       [] h = "Longitude" -> Get(loc, "lng", Empty)]])

Hashable(v) == v.tag \notin {"list", "dict"}

\* the loop body with the test "if pid in seen" (no truthiness test)
LoopBodyEmptyDeduped(st, place, src) ==
    LET pid == Get(place, "placeId", Empty)
    IN  IF pid \in st.seen THEN st
        ELSE LET st2 == [st EXCEPT !.seen = @ \cup {pid}]
             IN  IF Truthy(Get(place, "permanentlyClosed", PyNone))
                 THEN st2
                 ELSE LET r == extract_row(place, src)
                      IN  IF r.kind = "raise"
                          THEN [st2 EXCEPT !.exc = r.exc]
                          ELSE [st2 EXCEPT !.rows = Append(@, r.val)]

\* the loop body with the closed filter placed before seen.add(pid)
LoopBodyFilterFirst(st, place, src) ==
    LET pid == Get(place, "placeId", Empty)
    IN  IF Truthy(pid) /\ pid \in st.seen THEN st
        ELSE IF Truthy(Get(place, "permanentlyClosed", PyNone)) THEN st
        ELSE LET st2 == [st EXCEPT !.seen = @ \cup {pid}]
                 r == extract_row(place, src)
             IN  IF r.kind = "raise"
                 THEN [st2 EXCEPT !.exc = r.exc]
                 ELSE [st2 EXCEPT !.rows = Append(@, r.val)]

\* one iteration of the for loop, lines 110-117, on the loop state
\* st = [seen, rows, exc]
LoopBody(st, place, src) ==
    IF place.tag # "dict" THEN [st EXCEPT !.exc = "AttributeError"]
    ELSE LET pid == Get(place, "placeId", Empty)
         IN  IF ~Hashable(pid) THEN [st EXCEPT !.exc = "TypeError"]
             ELSE IF Truthy(pid) /\ pid \in st.seen THEN st
             ELSE LET st2 == [st EXCEPT !.seen = @ \cup {pid}]
                  IN  IF Truthy(Get(place, "permanentlyClosed", PyNone))
                      THEN st2
                      ELSE LET r == extract_row(place, src)
                           IN  IF r.kind = "raise"
                               THEN [st2 EXCEPT !.exc = r.exc]
                               ELSE [st2 EXCEPT !.rows = Append(@, r.val)]

\* int(s) for the strings that occur
DigitStrings == [s \in {"12"} |-> 12]

\* int(r["Review Count"] or 0), line 120
SortKey(row) ==
    LET v == row.cells["Review Count"]
    IN  IF ~Truthy(v) THEN Ok(0)
        ELSE CASE v.tag = "int" -> Ok(v.n)
               [] v.tag = "bool" -> Ok(1)
               [] v.tag = "str" -> IF v.s \in DOMAIN DigitStrings
                                   THEN Ok(DigitStrings[v.s])
                                   ELSE Raise("ValueError")
               [] OTHER -> Raise("TypeError")

\* insertion before the rows whose key is equal as well: equal keys end up
\* in reverse input order
InsertRowUnstable(sorted, r) ==
    LET notLarger == {j \in 1..Len(sorted) : SortKey(sorted[j]).val <= SortKey(r).val}
        at == IF notLarger = {} THEN Len(sorted) + 1
              ELSE CHOOSE j \in notLarger : \A h \in notLarger : j <= h
    IN  SubSeq(sorted, 1, at - 1) \o <<r>> \o SubSeq(sorted, at, Len(sorted))

\* place of row r in a list already in order: after every row whose key is
\* not smaller (reverse=True keeps equal keys in their original order)
InsertRow(sorted, r) ==
    LET smaller == {j \in 1..Len(sorted) : SortKey(sorted[j]).val < SortKey(r).val}
        at == IF smaller = {} THEN Len(sorted) + 1
              ELSE CHOOSE j \in smaller : \A h \in smaller : j <= h
    IN  SubSeq(sorted, 1, at - 1) \o <<r>> \o SubSeq(sorted, at, Len(sorted))

RECURSIVE SortFrom(_, _, _)
SortFrom(rs, j, acc) ==
    IF j > Len(rs) THEN acc ELSE SortFrom(rs, j + 1, InsertRow(acc, rs[j]))

\* rows.sort(key=..., reverse=True), line 120: the sorted list, or the
\* exception of the first row whose key cannot be computed
SortRows(rs) ==
    LET bad == {j \in 1..Len(rs) : SortKey(rs[j]).kind = "raise"}
    IN  IF bad # {}
        THEN Raise(SortKey(rs[CHOOSE j \in bad : \A h \in bad : j <= h]).exc)
        ELSE Ok(SortFrom(rs, 1, <<>>))

\* the slice rows[:PREVIEW_ROWS + 1]
FirstRowsOneMore(rs) ==
    SubSeq(rs, 1, IF Len(rs) < PREVIEW_ROWS + 1 THEN Len(rs) ELSE PREVIEW_ROWS + 1)

\* rows[:PREVIEW_ROWS], line 134
FirstRows(rs) == SubSeq(rs, 1, IF Len(rs) < PREVIEW_ROWS THEN Len(rs) ELSE PREVIEW_ROWS)

NoFile == [exists |-> FALSE, rows |-> <<>>]
File(r) == [exists |-> TRUE, rows |-> r]

\* for place in data: ... (lines 110-117)
LoopStep ==
    /\ tpc = "loop"
    /\ i <= Len(data)
    /\ LET st == LoopBody([seen |-> seen, rows |-> rows, exc |-> ""], data[i], i)
       IN  /\ seen' = st.seen
           /\ rows' = st.rows
           /\ tpc' = IF st.exc # "" THEN "raised" ELSE "loop"
    /\ i' = i + 1
    /\ UNCHANGED <<data, full, preview, xvars, mvars>>

\* rows.sort(...) (line 120)
Sort ==
    /\ tpc = "loop"
    /\ i > Len(data)
    /\ LET r == SortRows(rows)
       IN  IF r.kind = "ok"
           THEN rows' = r.val /\ tpc' = "write_full"
           ELSE rows' = rows /\ tpc' = "raised"
    /\ UNCHANGED <<data, i, seen, full, preview, xvars, mvars>>

\* write the full CSV (lines 122-127)
WriteFull ==
    /\ tpc = "write_full"
    /\ full' = File(rows)
    /\ tpc' = "write_preview"
    /\ UNCHANGED <<data, i, seen, rows, preview, xvars, mvars>>

\* write the preview CSV and return (lines 129-138)
WritePreview ==
    /\ tpc = "write_preview"
    /\ preview' = File(FirstRows(rows))
    /\ tpc' = "done"
    /\ UNCHANGED <<data, i, seen, rows, full, xvars, mvars>>

-----------------------------------------------------------------------------
(* process_niche as one call, and main *)

RECURSIVE LoopFrom(_, _, _)
LoopFrom(d, j, st) ==
    IF j > Len(d) \/ st.exc # "" THEN st
    ELSE LoopFrom(d, j + 1, LoopBody(st, d[j], j))

\* lines 107-120 on an extracted array: the sorted rows, or the exception
Transform(d) ==
    LET st == LoopFrom(d, 1, [seen |-> {}, rows |-> <<>>, exc |-> ""])
    IN  IF st.exc # "" THEN Raise(st.exc) ELSE SortRows(st.rows)

\* f.read().strip(), line 100
RECURSIVE RStrip(_)
RStrip(s) ==
    IF s # <<>> /\ s[Len(s)] \in Whitespace THEN RStrip(SubSeq(s, 1, Len(s) - 1))
    ELSE s

Strip(s) == LET t == RStrip(s) IN SubSeq(t, SkipWs(t, 1), Len(t))

NoRaw == [exists |-> FALSE, text |-> <<>>]
RawFile(s) == [exists |-> TRUE, text |-> s]

\* lines 122-138 on the outcome r of the transformation: both files are
\* written from the same list, and len(rows) is returned
WriteOutputs(r, keep) ==
    IF r.kind = "raise" THEN [ret |-> r] @@ keep
    ELSE [ret |-> Ok(Len(r.val)),
          full |-> File(r.val),
          preview |-> File(FirstRows(r.val))]

\* lines 103-138 on the outcome d of the extraction
AfterExtract(d, keep) ==
    IF d.kind = "raise" THEN [ret |-> d] @@ keep
    ELSE IF d.val = PyNone THEN [ret |-> Ok(0)] @@ keep
    ELSE WriteOutputs(Transform(d.val.items), keep)

\* process_niche(niche_key), lines 93-138, on the niche's three files: what
\* the call returns or raises, and the two output files as it leaves them
process_niche(rawfile, oldFull, oldPreview) ==
    IF ~rawfile.exists
    THEN [ret |-> Ok(0), full |-> oldFull, preview |-> oldPreview]
    ELSE AfterExtract(extract_json_from_raw(Strip(rawfile.text)),
                      [full |-> oldFull, preview |-> oldPreview])

Niches == {NICHES[n] : n \in 1..Len(NICHES)}

NoStats == [exists |-> FALSE, counts |-> <<>>]

Stopped == mpc \in {"idle", "exited", "crashed"}

\* main is started: lines 141-143
StartRun ==
    /\ Stopped
    /\ stats' = <<>>
    /\ k' = 1
    /\ mpc' = "loop"
    /\ UNCHANGED <<raw, fullOf, previewOf, statsFile, changes, xvars, tvars>>

\* one iteration of the loop over NICHES, lines 144-148; an exception that
\* process_niche raises is caught nowhere and ends the process
ProcessNiche ==
    /\ mpc = "loop"
    /\ k <= Len(NICHES)
    /\ \E n \in {NICHES[k]} :
       \E r \in {process_niche(raw[n], fullOf[n], previewOf[n])} :
           IF r.ret.kind = "raise"
           THEN /\ mpc' = "crashed"
                /\ UNCHANGED <<fullOf, previewOf, stats, k>>
           ELSE /\ fullOf' = [fullOf EXCEPT ![n] = r.full]
                /\ previewOf' = [previewOf EXCEPT ![n] = r.preview]
                /\ stats' = Put(stats, n, r.ret.val)
                /\ k' = k + 1
                /\ mpc' = mpc
    /\ UNCHANGED <<raw, statsFile, changes, xvars, tvars>>

\* json.dump(stats, f) and return, lines 150-154
WriteStats ==
    /\ mpc = "loop"
    /\ k > Len(NICHES)
    /\ statsFile' = [exists |-> TRUE, counts |-> stats]
    /\ mpc' = "exited"
    /\ UNCHANGED <<raw, fullOf, previewOf, stats, k, changes, xvars, tvars>>

-----------------------------------------------------------------------------
(* Raw contents examined by the extractor *)

Alphabet == {"[", "]", "{", "}", "t", "x", "b", ",", " "}

\* the sequences over S of length at most n
SeqsUpTo(S, n) == UNION {[1..m -> S] : m \in 0..n}

IdleT ==
    /\ data = <<>> /\ i = 0 /\ seen = {} /\ rows = <<>> /\ tpc = "off"
    /\ full = NoFile /\ preview = NoFile

IdleM ==
    /\ raw = <<>> /\ fullOf = <<>> /\ previewOf = <<>> /\ stats = <<>>
    /\ statsFile = NoFile /\ k = 0 /\ mpc = "off" /\ changes = 0

IdleX == content = <<>> /\ xpc = "off" /\ result = Pending

InitExtract ==
    /\ content \in SeqsUpTo(Alphabet, MaxContentLen)
    /\ xpc = "s1"
    /\ result = Pending
    /\ IdleT
    /\ IdleM

-----------------------------------------------------------------------------
(* Record sequences given to the transformation *)

RECURSIVE MkDict(_, _)
MkDict(toks, j) ==
    IF j > Len(toks) THEN EmptyDict.d
    ELSE Put(MkDict(toks, j + 1), AtomKey[toks[j]], AtomVal[toks[j]])

\* the record with the members named by toks
Place(toks) == PyDict(MkDict(toks, 1))

LatLng == PyDict(MkDict(<<"a", "g">>, 1))

Places ==
    {Place(toks) : toks \in {<<>>, <<"pa">>, <<"pb">>, <<"c">>, <<"pa", "c">>,
                             <<"r5">>, <<"pa", "r5">>, <<"t", "rs">>,
                             <<"t", "re">>, <<"t", "rx">>, <<"pe">>,
                             <<"lx", "r5">>, <<"ln">>, <<"pb", "c">>}}
    \cup {PyDict(Put(MkDict(<<"t", "pa">>, 1), "location", LatLng))}

Plain == Place(<<"t">>)
Popular == Place(<<"t", "r5">>)

\* long sequences: one record with reviews among records without
LongData(lo, hi) ==
    {[j \in 1..n |-> IF j = h THEN Popular ELSE Plain] : n \in lo..hi, h \in 0..hi}

StaleRow == [src |-> 0, cells |-> extract_row(Place(<<"pb">>), 0).val.cells]

InitTransform ==
    /\ data \in SeqsUpTo(Places, MaxRecords) \cup LongData(MaxRecords + 1, MaxLong)
    /\ i = 1
    /\ seen = {}
    /\ rows = <<>>
    /\ tpc = "loop"
    /\ full \in {NoFile, File(<<StaleRow>>)}
    /\ preview = full
    /\ IdleX
    /\ IdleM

NextTransform == LoopStep \/ Sort \/ WriteFull \/ WritePreview

SpecTransform == InitTransform /\ [][NextTransform]_vars

-----------------------------------------------------------------------------
(* Raw files between runs *)

Junk == <<"x", "x">>
Truncated == <<"[", "{", "t", ",", "r5", "}", ",", "{", "pa">>
Wrapped == <<"x", " ", "[", "{", "t", ",", "pa", "}", "]", " ", "x", " ">>
Pure == <<"[", "{", "t", ",", "r5", ",", "pa", "}", ",", " ", "{", "pa", "}",
          ",", "{", "rs", "}", ",", "{", "c", "}", "]">>

RawOptions == {NoRaw, RawFile(Junk), RawFile(Truncated), RawFile(Wrapped), RawFile(Pure)}

\* a raw file appears, changes or disappears while no run is in progress
ChangeRaw ==
    /\ Stopped
    /\ changes < MaxChanges
    /\ \E n \in Niches, f \in RawOptions :
          /\ f # raw[n]
          /\ raw' = [raw EXCEPT ![n] = f]
    /\ changes' = changes + 1
    /\ mpc' = "idle"
    /\ UNCHANGED <<fullOf, previewOf, stats, statsFile, k, xvars, tvars>>

InitRun ==
    /\ raw \in [Niches -> RawOptions]
    /\ fullOf = [n \in Niches |-> NoFile]
    /\ previewOf = [n \in Niches |-> NoFile]
    /\ stats = <<>>
    /\ statsFile = NoStats
    /\ k = 0
    /\ mpc = "idle"
    /\ changes = 0
    /\ IdleX
    /\ IdleT

NextRun == StartRun \/ ProcessNiche \/ WriteStats \/ ChangeRaw

SpecRun == InitRun /\ [][NextRun]_vars

NextExtract == Strategy1 \/ Strategy2 \/ Strategy3 \/ ReturnNone

SpecExtract == InitExtract /\ [][NextExtract]_vars

-----------------------------------------------------------------------------
(* Properties of the transformation (SpecTransform) *)

PidOf(j) == Get(data[j], "placeId", Empty)
ClosedAt(j) == Truthy(Get(data[j], "permanentlyClosed", PyNone))
Written == tpc \in {"write_preview", "done"}
Min(a, b) == IF a < b THEN a ELSE b

\* Review Count read as a number, absent or empty counting as 0
NumberOf(v) ==
    CASE v.tag = "int" -> v.n
      [] v.tag = "str" /\ v.s \in DOMAIN DigitStrings -> DigitStrings[v.s]
      [] OTHER -> 0

CountOf(row) == NumberOf(row.cells["Review Count"])

\* C1: no two rows come from records with the same non-empty placeId, a row's
\* record is the first record of the input with its placeId, and a record
\* with an empty or missing placeId is left out only when it is closed; the
\* full output holds exactly these rows.
C1_DedupFirstWins ==
    /\ \A a \in 1..Len(rows) : \A b \in 1..Len(rows) :
          (a # b /\ Truthy(PidOf(rows[a].src)))
              => PidOf(rows[a].src) # PidOf(rows[b].src)
    /\ \A a \in 1..Len(rows) :
          Truthy(PidOf(rows[a].src))
              => \A j \in 1..(rows[a].src - 1) : PidOf(j) # PidOf(rows[a].src)
    /\ tpc \in {"loop", "write_full", "write_preview", "done"}
          => \A j \in 1..(i - 1) :
                (~Truthy(PidOf(j)) /\ ~ClosedAt(j))
                    => \E a \in 1..Len(rows) : rows[a].src = j
    /\ Written => full = File(rows)

\* C1 witness: the run ended, an open record repeated the placeId of an
\* earlier open record, and two records without placeId were both kept
C1_Witness ==
    /\ tpc = "done"
    /\ \E j1 \in 1..Len(data), j2 \in 1..Len(data) :
          /\ j1 < j2
          /\ Truthy(PidOf(j1)) /\ PidOf(j1) = PidOf(j2)
          /\ ~ClosedAt(j1) /\ ~ClosedAt(j2)
          /\ \E a \in 1..Len(full.rows) : full.rows[a].src = j1
    /\ \E j3 \in 1..Len(data) :
          /\ ~Truthy(PidOf(j3))
          /\ \E a \in 1..Len(full.rows) : full.rows[a].src = j3

\* C2: a closed record gives no row and its placeId is in seen once it has
\* been handled, so no later record with that placeId gives a row; two
\* records with one placeId, the first closed and the second open, give an
\* empty full output.
C2_ClosedMarksSeen ==
    /\ \A j \in 1..Min(i - 1, Len(data)) :
          ClosedAt(j) =>
              /\ PidOf(j) \in seen
              /\ \A a \in 1..Len(rows) :
                    /\ rows[a].src # j
                    /\ (Truthy(PidOf(j)) /\ rows[a].src > j)
                          => PidOf(rows[a].src) # PidOf(j)
    /\ (/\ tpc = "done"
        /\ Len(data) = 2
        /\ Truthy(PidOf(1)) /\ PidOf(1) = PidOf(2)
        /\ ClosedAt(1) /\ ~ClosedAt(2))
          => full = File(<<>>)

\* C2 witness: the run ended on two records sharing a placeId, the first
\* closed and the second open
C2_Witness ==
    /\ tpc = "done"
    /\ Len(data) = 2
    /\ Truthy(PidOf(1)) /\ PidOf(1) = PidOf(2)
    /\ ClosedAt(1) /\ ~ClosedAt(2)
    /\ full.exists

C4_PreviewIsPrefix ==
    tpc = "done" =>
        /\ full.exists /\ preview.exists
        /\ Len(preview.rows) = Min(PREVIEW_ROWS, Len(full.rows))
        /\ \A a \in 1..Len(preview.rows) : preview.rows[a] = full.rows[a]

\* C4 witness: a full output of more than ten rows, not all alike, cut to ten
C4_Witness ==
    /\ tpc = "done"
    /\ Len(full.rows) > PREVIEW_ROWS
    /\ Len(preview.rows) = PREVIEW_ROWS
    /\ CountOf(full.rows[1]) > CountOf(full.rows[2])

\* C10: no step of the transformation throws on a sequence of records, and
\* a field the record lacks is empty in its row.
C10_TransformTotal ==
    /\ tpc # "raised"
    /\ \A a \in 1..Len(rows) :
          LET place == data[rows[a].src].d
          IN  /\ "title" \notin DOMAIN place
                    => rows[a].cells["Business Name"] = Empty
              /\ "reviewsCount" \notin DOMAIN place
                    => rows[a].cells["Review Count"] = Empty
              /\ "location" \notin DOMAIN place
                    => /\ rows[a].cells["Latitude"] = Empty
                       /\ rows[a].cells["Longitude"] = Empty

-----------------------------------------------------------------------------
(* Properties of the extractor (SpecExtract) *)

\* C5: for content beginning with [{ the result is the parse of the whole
\* content when that parse succeeds and None when it fails.
C5_Strategy1IsDirectParse ==
    (xpc = "done" /\ At(content, 1) = "[" /\ At(content, 2) = "{")
        => result = (IF json_loads(content).kind = "ok"
                     THEN json_loads(content) ELSE Ok(PyNone))

\* the anchored array of a content: the JSON array that starts at the first
\* marker, when there is one and its last bracket is where the bracket depth
\* returns to zero
Anchored(s) ==
    LET start == FindMarker(s)
        v == IF start > 0 THEN ParseValue(s, start) ELSE Fail
    IN  IF v.ok /\ ScanDepth(s, start, 0) = v.next - 1
        THEN [found |-> TRUE, val |-> v.val]
        ELSE [found |-> FALSE]

\* C6: for content holding the marker followed by a bracket-balanced JSON
\* array, the result is that array, whatever surrounds it.
C6_AnchoredArrayRecovered ==
    (xpc = "done" /\ Anchored(content).found)
        => result = Ok(Anchored(content).val)

\* C7: extract_json_from_raw never raises.
C7_NeverRaises == result.kind # "raise"

-----------------------------------------------------------------------------
(* Properties of the run (SpecRun) *)

Failed(n) ==
    \/ ~raw[n].exists
    \/ extract_json_from_raw(Strip(raw[n].text)).kind = "raise"
    \/ extract_json_from_raw(Strip(raw[n].text)) = Ok(PyNone)

\* C8: a run never ends in an exception, and a finished run has written a
\* summary with an entry for every niche, 0 for each niche that failed.
C8_RunAlwaysCompletes ==
    /\ mpc # "crashed"
    /\ mpc = "exited" =>
          /\ statsFile.exists
          /\ DOMAIN statsFile.counts = Niches
          /\ \A n \in Niches : Failed(n) => statsFile.counts[n] = 0

\* C9: when a run has finished, the summary count of every niche is the
\* number of rows of its full output, and is 0 for a niche whose input is
\* missing or unparseable.
C9_SummaryMatchesOutputs ==
    mpc = "exited" =>
        \A n \in Niches :
            /\ statsFile.counts[n] = Len(fullOf[n].rows)
            /\ Failed(n) => statsFile.counts[n] = 0

====
